---- MODULE Spec2Model ----
(***************************************************************************)
(* iden3js key container (LocalStorageContainer) and its database (Db).    *)
(*                                                                         *)
(* The container keeps an in-memory encryption key (empty while locked), a *)
(* timer handle, and persists every secret through Db into localStorage.   *)
(* One action models one public method, all of its calls included.  The    *)
(* variables op and ret record what the caller of the last method saw.     *)
(***************************************************************************)
EXTENDS Integers, Sequences, FiniteSets, TLC

VARIABLES
  encryptionKey,   \* this.encryptionKey: '' while locked
  timer,           \* this.timer: handle of the last setTimeout (0: the initial {})
  pending,         \* the event loop's pending timeouts: handle -> ms left
  nextTimerId,     \* the next handle setTimeout returns
  localStorage,    \* localStorage: full key -> stored string
  backup,          \* blobs the caller obtained from export()
  op,              \* name of the method the caller invoked last
  ret              \* what that call returned or threw

vars == <<encryptionKey, timer, pending, nextTimerId, localStorage, backup, op, ret>>

(***************************************************************************)
(* Bounds of the model.                                                    *)
(***************************************************************************)
MaxTimers == 2      \* setTimeout calls (unlocks) in one behaviour
TickMs == 30000     \* granularity of the passage of time
MaxPath == 2        \* createKeys / increaseKeyPath stop at this counter
MaxBackups == 1     \* blobs the caller keeps
MaxBlobMembers == 3 \* entries of a store whose blob the caller keeps

(***************************************************************************)
(* Program constants.                                                      *)
(***************************************************************************)
AutoLockMs == 30000
DerivedKeys == 3

Passphrases == {"p1", "p2"}
MasterSeeds == {"m1"}
BadMnemonic == "not a mnemonic"
RandKeys == {"r1"}
ImportKeys == {"x1"}
Messages == {"hello"}

DBPREFIX == "db-"
KCPREFIX == "kc-"
IDRECOVERYPREFIX == "idRecovery-"

(***************************************************************************)
(* Values a method hands back: kind says what it is, val carries strings,  *)
(* num a number.                                                           *)
(***************************************************************************)
Ret(kind, val, num) == [kind |-> kind, val |-> val, num |-> num]
NoNum == [hi |-> 0, lo |-> 0]
Undefined == Ret("undefined", <<>>, NoNum)
RetTrue == Ret("true", <<>>, NoNum)
RetFalse == Ret("false", <<>>, NoNum)
RetString(s) == Ret("string", <<s>>, NoNum)
RetArray(a) == Ret("array", a, NoNum)
Throw(e) == Ret("throw", <<e>>, NoNum)
IsThrow(r) == r.kind = "throw"

\* The outcome of running a method body: the storage it leaves and its result.
Out(ls, r) == [ls |-> ls, ret |-> r]

(***************************************************************************)
(* PrimitiveProvider: kc-utils, bip39, hdkey, ethereumjs-util.             *)
(***************************************************************************)
passToKey(passphrase, salt) == "key(" \o passphrase \o "," \o salt \o ")"

KeysOfPassphrases == {passToKey(p, "salt") : p \in Passphrases}

\* kcUtils.encrypt: secret-box of the plaintext under the key.
encrypt(key, m) == [key |-> key, pt |-> m]

NullValue == [fmt |-> "null", parts |-> <<>>]

\* kcUtils.decrypt fails on a wrong key or on input that is no ciphertext.
decryptFails(key, c) == c.key # key
decrypt(key, c) == c.pt

decryptStoredFails(key, v) == v.fmt # "cipher" \/ decryptFails(key, v.parts[1])

derive(seed, path) == seed \o "/" \o path
\* hdkey's derive asserts that a child index written in the path is below the
\* hardened offset 2^31, and throws otherwise.
HARDENED_OFFSET == [hi |-> 32768, lo |-> 0]
deriveFails(childIndex) ==
  childIndex.hi > HARDENED_OFFSET.hi
    \/ (childIndex.hi = HARDENED_OFFSET.hi /\ childIndex.lo >= HARDENED_OFFSET.lo)
entropyToMnemonic(privKey) == "mnemonic(" \o privKey \o ")"
privateToAddress(privKey) == "addr(" \o privKey \o ")"
publicKeyOf(privKey) == "pub(" \o privKey \o ")"

pathRoot == "m/44'/60'/0'"
pathRecovery == "m/44'/60'/1'"
KeyPath(pathProfile, i) == pathRoot \o "/" \o pathProfile \o "/" \o ToString(i)

KeySeedOf(masterSeed) == entropyToMnemonic(derive(masterSeed, pathRoot))
Mnemonics == MasterSeeds \cup {KeySeedOf(m) : m \in MasterSeeds \cup {BadMnemonic}}
validateMnemonic(mnemonic) == mnemonic \in Mnemonics

(***************************************************************************)
(* The path counter on disk: Buffer.writeUInt32BE, utils.bytesToHex,       *)
(* utils.hexToBytes, Buffer.readUInt32BE.  A JavaScript number n is kept   *)
(* as its two 16-bit halves, n = hi * 65536 + lo, so that 2^32 - 1 and     *)
(* 2^32 are both representable; a hex string is the sequence of its        *)
(* digits.                                                                 *)
(***************************************************************************)
Half == 65536
Num(hi, lo) == [hi |-> hi, lo |-> lo]
Small(n) == Num(0, n)
Plus1(n) == IF n.lo = Half - 1 THEN Num(n.hi + 1, 0) ELSE Num(n.hi, n.lo + 1)
NumLess(a, b) == a.hi < b.hi \/ (a.hi = b.hi /\ a.lo < b.lo)
NumToString(n) ==
  IF n.hi = 0 THEN ToString(n.lo) ELSE ToString(n.hi) \o "*65536+" \o ToString(n.lo)

HexDigits == <<"0", "1", "2", "3", "4", "5", "6", "7",
               "8", "9", "a", "b", "c", "d", "e", "f">>
HexValue(d) == (CHOOSE i \in 1..16 : HexDigits[i] = d) - 1

\* writeUInt32BE throws a RangeError unless 0 <= n < 2^32.
writeUInt32BEFails(n) == n.hi >= Half
writeUInt32BE(n) == <<n.hi \div 256, n.hi % 256, n.lo \div 256, n.lo % 256>>
readUInt32BE(b) == Num(b[1] * 256 + b[2], b[3] * 256 + b[4])

bytesToHex(b) ==
  <<"0x">> \o [i \in 1..(2 * Len(b)) |->
                 IF i % 2 = 1 THEN HexDigits[(b[(i + 1) \div 2] \div 16) + 1]
                              ELSE HexDigits[(b[i \div 2] % 16) + 1]]
hexToBytes(h) ==
  [i \in 1..((Len(h) - 1) \div 2) |-> 16 * HexValue(h[2 * i]) + HexValue(h[2 * i + 1])]

(***************************************************************************)
(* Db over localStorage.  A key is the sequence of the strings it is       *)
(* concatenated from; a stored string is a ciphertext or the JSON text of  *)
(* the key seed record.                                                    *)
(***************************************************************************)
StoredCipher(c) == [fmt |-> "cipher", parts |-> <<c>>]
StoredJson(c1, c2) == [fmt |-> "json", parts |-> <<c1, c2>>]
\* A string stored as it is (saveObject's JSON.stringify(value)): no key, the text itself.
StoredText(text) == [fmt |-> "text", parts |-> <<[key |-> "", pt |-> <<text>>]>>]
\* A string that is neither ciphertext nor JSON, as Db.insert takes any value.
StoredRaw(text) == [fmt |-> "raw", parts |-> <<[key |-> "", pt |-> <<text>>]>>]

DbKey(key) == <<DBPREFIX>> \o key

Put(ls, k, v) == [x \in (DOMAIN ls) \cup {k} |-> IF x = k THEN v ELSE ls[x]]

DbInsert(ls, key, value) == Put(ls, DbKey(key), value)
DbGet(ls, key) == IF DbKey(key) \in DOMAIN ls THEN ls[DbKey(key)] ELSE NullValue
DbDelete(ls, key) == [x \in (DOMAIN ls) \ {DbKey(key)} |-> ls[x]]
DbDeleteAll(ls) == [x \in {} |-> NullValue]

IsPrefix(p, s) == Len(p) <= Len(s) /\ SubSeq(s, 1, Len(p)) = p
DbListKeys(ls, prefix) ==
  {SubSeq(k, 2, Len(k)) : k \in {x \in DOMAIN ls : IsPrefix(DbKey(prefix), x)}}

EmptyStorage == [x \in {} |-> NullValue]

\* The orders in which localStorage.key(i) can hand out the keys S: the code
\* only calls setItem, the place of a key in the enumeration is the platform's.
RECURSIVE KeyOrders(_)
KeyOrders(S) ==
  IF S = {} THEN {<<>>}
  ELSE UNION {{<<x>> \o p : p \in KeyOrders(S \ {x})} : x \in S}

(***************************************************************************)
(* The container's methods as functions of this.encryptionKey (key) and    *)
(* localStorage (ls): each yields the storage it leaves and what it        *)
(* returns or throws.  f names the db.insert of the call that throws       *)
(* because localStorage.setItem does (0: none); a method called by another *)
(* is handed f less the inserts already made.                              *)
(***************************************************************************)
isUnlock(key) == key # ""

Rest(f, done) == IF f = 0 THEN 0 ELSE f - done

insert(ls, key, value, fails) ==
  IF fails THEN Out(ls, Throw("PersistenceFailure"))
           ELSE Out(DbInsert(ls, key, value), Undefined)

masterSeedKey == <<KCPREFIX, "masterSeed">>
keySeedKey == <<KCPREFIX, "keySeed">>
AddrKey(hex) == <<KCPREFIX, hex>>
RecoveryKey(hex) == <<KCPREFIX, IDRECOVERYPREFIX, hex>>

\* Every private key the bounded inputs can produce, and hex strings of keys.
KeySeeds == {KeySeedOf(m) : m \in MasterSeeds}
PrivKeys ==
  UNION {{derive(ks, KeyPath(ToString(p), i)) : p \in 0..(MaxPath + 1), i \in 0..(DerivedKeys - 1)}
         : ks \in KeySeeds}
  \cup {derive(m, pathRecovery) : m \in MasterSeeds} \cup RandKeys \cup ImportKeys
keyToHex(bytes) == "0x" \o bytes
hexToKey(hex) == CHOOSE x \in PrivKeys : keyToHex(x) = hex

\* db.get(keys) of the array db.listKeys returned: the array is joined into the key.
getListed(ls, keys) ==
  IF Cardinality(keys) = 1 THEN DbGet(ls, CHOOSE x \in keys : TRUE) ELSE NullValue

\* saveObject has no isUnlock guard and catches what db.insert throws.
saveObject(ls, name, value, f) ==
  LET w == insert(ls, <<KCPREFIX, name>>, StoredText(value), f = 1)
  IN  IF IsThrow(w.ret) THEN Out(ls, RetFalse) ELSE Out(w.ls, RetTrue)

saveMasterSeed(key, ls, masterSeed, f) ==
  LET seedEncrypted == encrypt(key, <<masterSeed>>)
  IN  insert(ls, masterSeedKey, StoredCipher(seedEncrypted), f = 1)

generateMasterSeed_SkipsValidation(key, ls, mnemonic, f) ==
  IF isUnlock(key)
    THEN LET s == saveMasterSeed(key, ls, mnemonic, f)
         IN  IF IsThrow(s.ret) THEN s ELSE Out(s.ls, RetTrue)
    ELSE Out(ls, RetFalse)

generateMasterSeed(key, ls, mnemonic, f) ==
  IF isUnlock(key) /\ validateMnemonic(mnemonic)
    THEN LET s == saveMasterSeed(key, ls, mnemonic, f)
         IN  IF IsThrow(s.ret) THEN s ELSE Out(s.ls, RetTrue)
    ELSE Out(ls, RetFalse)

getMasterSeed(key, ls, pass) ==
  IF isUnlock(key)
    THEN LET seedKey == DbListKeys(ls, masterSeedKey)
             seedEncrypted == getListed(ls, seedKey)
         IN  IF seedKey = {} THEN Out(ls, Undefined)
             ELSE IF decryptStoredFails(pass, seedEncrypted) THEN Out(ls, Undefined)
             ELSE Out(ls, Ret("string", decrypt(pass, seedEncrypted.parts[1]), NoNum))
    ELSE Out(ls, Undefined)

generateKeySeed_AcceptsUndefined(key, ls, masterSeed, f) ==
  IF isUnlock(key)
    THEN LET seed == IF masterSeed.kind = "string" THEN masterSeed.val[1] ELSE BadMnemonic
             keySeed == entropyToMnemonic(derive(seed, pathRoot))
             w == insert(ls, keySeedKey,
                         StoredJson(encrypt(key, <<keySeed>>),
                                    encrypt(key, bytesToHex(writeUInt32BE(Small(0))))),
                         f = 1)
         IN  IF IsThrow(w.ret) THEN w ELSE Out(w.ls, RetTrue)
    ELSE Out(ls, RetFalse)

generateKeySeed_StartsAtOne(key, ls, masterSeed, f) ==
  IF isUnlock(key)
    THEN IF masterSeed.kind # "string" THEN Out(ls, Throw("TypeError"))
         ELSE LET keySeed == entropyToMnemonic(derive(masterSeed.val[1], pathRoot))
                  w == insert(ls, keySeedKey,
                              StoredJson(encrypt(key, <<keySeed>>),
                                         encrypt(key, bytesToHex(writeUInt32BE(Small(1))))),
                              f = 1)
              IN  IF IsThrow(w.ret) THEN w ELSE Out(w.ls, RetTrue)
    ELSE Out(ls, RetFalse)

\* masterSeed is what the caller passes: a string, or undefined.
generateKeySeed(key, ls, masterSeed, f) ==
  IF isUnlock(key)
    THEN IF masterSeed.kind # "string" THEN Out(ls, Throw("TypeError"))
         ELSE LET privKey == derive(masterSeed.val[1], pathRoot)
                  keySeed == entropyToMnemonic(privKey)
                  keySeedEncrypted == encrypt(key, <<keySeed>>)
                  pathKey == writeUInt32BE(Small(0))
                  pathKeySeedEncrypted == encrypt(key, bytesToHex(pathKey))
                  w == insert(ls, keySeedKey,
                              StoredJson(keySeedEncrypted, pathKeySeedEncrypted), f = 1)
              IN  IF IsThrow(w.ret) THEN w ELSE Out(w.ls, RetTrue)
    ELSE Out(ls, RetFalse)

\* db.get of several listed keys finds nothing, JSON.parse(null) is null and
\* destructuring it throws; JSON.parse throws on a stored value that is not
\* JSON; of one that is JSON but no record, both fields are undefined and
\* decrypt throws.
getKeySeed(key, ls) ==
  IF isUnlock(key)
    THEN LET keySeedDb == DbListKeys(ls, keySeedKey)
             stored == getListed(ls, keySeedDb)
         IN  IF keySeedDb = {} THEN Out(ls, Undefined)
             ELSE IF stored.fmt = "null" THEN Out(ls, Throw("TypeError"))
             ELSE IF stored.fmt \in {"cipher", "raw"} THEN Out(ls, Throw("SyntaxError"))
             ELSE IF stored.fmt # "json" THEN Out(ls, Throw("DecryptionFailure"))
             ELSE IF decryptFails(key, stored.parts[1]) \/ decryptFails(key, stored.parts[2])
               THEN Out(ls, Throw("DecryptionFailure"))
             ELSE LET keySeed == decrypt(key, stored.parts[1])
                      pathKeySeed == decrypt(key, stored.parts[2])
                      pathKey == readUInt32BE(hexToBytes(pathKeySeed))
                  IN  Out(ls, Ret("object", keySeed, pathKey))
    ELSE Out(ls, Undefined)

increaseKeyPath_NoIncrement(key, ls, f) ==
  IF isUnlock(key)
    THEN LET g == getKeySeed(key, ls)
         IN  IF IsThrow(g.ret) THEN g
             ELSE IF g.ret.kind # "object" THEN Out(ls, Throw("TypeError"))
             ELSE LET w == insert(ls, keySeedKey,
                                  StoredJson(encrypt(key, g.ret.val),
                                             encrypt(key, bytesToHex(writeUInt32BE(g.ret.num)))),
                                  f = 1)
                  IN  IF IsThrow(w.ret) THEN w ELSE Out(w.ls, RetTrue)
    ELSE Out(ls, RetFalse)

increaseKeyPath_Wraps(key, ls, f) ==
  IF isUnlock(key)
    THEN LET g == getKeySeed(key, ls)
         IN  IF IsThrow(g.ret) THEN g
             ELSE IF g.ret.kind # "object" THEN Out(ls, Throw("TypeError"))
             ELSE LET keySeed == g.ret.val
                      next == Plus1(g.ret.num)
                      increasePathKey == IF writeUInt32BEFails(next) THEN Small(0) ELSE next
                      pathKeyDb == writeUInt32BE(increasePathKey)
                      keySeedEncrypted == encrypt(key, keySeed)
                      pathKeySeedEncrypted == encrypt(key, bytesToHex(pathKeyDb))
                      w == insert(ls, keySeedKey,
                                  StoredJson(keySeedEncrypted, pathKeySeedEncrypted), f = 1)
                  IN  IF IsThrow(w.ret) THEN w ELSE Out(w.ls, RetTrue)
    ELSE Out(ls, RetFalse)

increaseKeyPath(key, ls, f) ==
  IF isUnlock(key)
    THEN LET g == getKeySeed(key, ls)
         IN  IF IsThrow(g.ret) THEN g
             ELSE IF g.ret.kind # "object" THEN Out(ls, Throw("TypeError"))
             ELSE LET keySeed == g.ret.val
                      increasePathKey == Plus1(g.ret.num)
                  IN  IF writeUInt32BEFails(increasePathKey) THEN Out(ls, Throw("RangeError"))
                      ELSE LET pathKeyDb == writeUInt32BE(increasePathKey)
                               keySeedEncrypted == encrypt(key, keySeed)
                               pathKeySeedEncrypted == encrypt(key, bytesToHex(pathKeyDb))
                               w == insert(ls, keySeedKey,
                                           StoredJson(keySeedEncrypted, pathKeySeedEncrypted),
                                           f = 1)
                           IN  IF IsThrow(w.ret) THEN w ELSE Out(w.ls, RetTrue)
    ELSE Out(ls, RetFalse)

generateRecoveryAddr_UnderAddress(key, ls, masterSeed, f) ==
  IF isUnlock(key)
    THEN LET privRecovery == derive(masterSeed, pathRecovery)
             addressRecoveryHex == keyToHex(privateToAddress(privRecovery))
             w == insert(ls, AddrKey(addressRecoveryHex),
                         StoredCipher(encrypt(key, <<keyToHex(privRecovery)>>)), f = 1)
         IN  IF IsThrow(w.ret) THEN w ELSE Out(w.ls, RetString(addressRecoveryHex))
    ELSE Out(ls, Undefined)

generateRecoveryAddr(key, ls, masterSeed, f) ==
  IF isUnlock(key)
    THEN LET privRecovery == derive(masterSeed, pathRecovery)
             addressRecoveryHex == keyToHex(privateToAddress(privRecovery))
             privRecoveryHexEncrypted == encrypt(key, <<keyToHex(privRecovery)>>)
             w == insert(ls, RecoveryKey(addressRecoveryHex),
                         StoredCipher(privRecoveryHexEncrypted), f = 1)
         IN  IF IsThrow(w.ret) THEN w ELSE Out(w.ls, RetString(addressRecoveryHex))
    ELSE Out(ls, Undefined)

generateSingleKey_BumpsCounter(key, ls, keyProfilePath, keyPath, f) ==
  IF isUnlock(key)
    THEN LET g == getKeySeed(key, ls)
         IN  IF IsThrow(g.ret) THEN g
             ELSE IF g.ret.kind # "object" THEN Out(ls, Throw("TypeError"))
             ELSE IF deriveFails(keyProfilePath) \/ deriveFails(Small(keyPath))
               THEN Out(ls, Throw("AssertionError"))
             ELSE LET privK == derive(g.ret.val[1], KeyPath(NumToString(keyProfilePath), keyPath))
                      addressHex == keyToHex(privateToAddress(privK))
                      privKHexEncrypted == encrypt(key, <<keyToHex(privK)>>)
                      w == insert(ls, AddrKey(addressHex), StoredCipher(privKHexEncrypted), f = 1)
                  IN  IF IsThrow(w.ret) THEN w
                      ELSE Out(increaseKeyPath(key, w.ls, 0).ls, RetString(addressHex))
    ELSE Out(ls, Undefined)

generateSingleKey(key, ls, keyProfilePath, keyPath, f) ==
  IF isUnlock(key)
    THEN LET g == getKeySeed(key, ls)
         IN  IF IsThrow(g.ret) THEN g
             ELSE IF g.ret.kind # "object" THEN Out(ls, Throw("TypeError"))
             ELSE IF deriveFails(keyProfilePath) \/ deriveFails(Small(keyPath))
               THEN Out(ls, Throw("AssertionError"))
             ELSE LET privK == derive(g.ret.val[1], KeyPath(NumToString(keyProfilePath), keyPath))
                      addressHex == keyToHex(privateToAddress(privK))
                      privKHexEncrypted == encrypt(key, <<keyToHex(privK)>>)
                      w == insert(ls, AddrKey(addressHex), StoredCipher(privKHexEncrypted), f = 1)
                  IN  IF IsThrow(w.ret) THEN w ELSE Out(w.ls, RetString(addressHex))
    ELSE Out(ls, Undefined)

derivedWrites_NoPublicKey(key, mnemonic, pathProfile, numberOfDerivedKeys) ==
  [j \in 1..(IF numberOfDerivedKeys = 0 THEN 0 ELSE numberOfDerivedKeys + 1) |->
     LET i == IF j <= 2 THEN 0 ELSE j - 2
         privK == derive(mnemonic, KeyPath(NumToString(pathProfile), i))
     IN  [id |-> keyToHex(privateToAddress(privK)),
          value |-> StoredCipher(encrypt(key, <<keyToHex(privK)>>))]]

derivedWrites_KeyCleared(key, mnemonic, pathProfile, numberOfDerivedKeys) ==
  [j \in 1..(IF numberOfDerivedKeys = 0 THEN 0 ELSE numberOfDerivedKeys + 1) |->
     LET i == IF j <= 2 THEN 0 ELSE j - 2
         privK == derive(mnemonic, KeyPath(NumToString(pathProfile), i))
         addressHex == keyToHex(privateToAddress(privK))
         pubKHex == keyToHex(publicKeyOf(privK))
     IN  [id |-> IF j = 2 THEN pubKHex ELSE addressHex,
          value |-> StoredCipher(encrypt(IF j = 1 THEN key ELSE "", <<keyToHex(privK)>>))]]

\* The inserts of generateKeysFromKeyPath's loop, in order: the address of every
\* key, and after the first one its public key.
derivedWrites(key, mnemonic, pathProfile, numberOfDerivedKeys) ==
  [j \in 1..(IF numberOfDerivedKeys = 0 THEN 0 ELSE numberOfDerivedKeys + 1) |->
     LET i == IF j <= 2 THEN 0 ELSE j - 2
         privK == derive(mnemonic, KeyPath(NumToString(pathProfile), i))
         privKHexEncrypted == encrypt(key, <<keyToHex(privK)>>)
         addressHex == keyToHex(privateToAddress(privK))
         pubKHex == keyToHex(publicKeyOf(privK))
     IN  [id |-> IF j = 2 THEN pubKHex ELSE addressHex,
          value |-> StoredCipher(privKHexEncrypted)]]

RECURSIVE insertAll(_, _, _, _)
insertAll(ls, W, j, f) ==
  IF j > Len(W) THEN Out(ls, Undefined)
  ELSE LET w == insert(ls, AddrKey(W[j].id), W[j].value, f = j)
       IN  IF IsThrow(w.ret) THEN w ELSE insertAll(w.ls, W, j + 1, f)

\* The first root.derive of the loop comes before the first db.insert.
generateKeysFromKeyPath(key, ls, mnemonic, pathProfile, numberOfDerivedKeys, f) ==
  IF ~isUnlock(key) \/ ~validateMnemonic(mnemonic) THEN Out(ls, Undefined)
  ELSE IF numberOfDerivedKeys > 0 /\ deriveFails(pathProfile)
    THEN Out(ls, Throw("AssertionError"))
  ELSE LET W == derivedWrites(key, mnemonic, pathProfile, numberOfDerivedKeys)
           r == insertAll(ls, W, 1, f)
       IN  IF IsThrow(r.ret) THEN r
           ELSE Out(r.ls, Ret("object", [j \in 1..Len(W) |-> W[j].id], NoNum))

createKeys(key, ls, f) ==
  IF isUnlock(key)
    THEN LET first == getKeySeed(key, ls)
             absent == first.ret.kind = "undefined"
             gen == IF absent
                      THEN generateKeySeed(key, ls, getMasterSeed(key, ls, key).ret, f)
                      ELSE Out(ls, RetFalse)
             made == IF absent THEN 1 ELSE 0
             objectKeySeed == IF absent /\ gen.ret.kind = "true"
                                THEN getKeySeed(key, gen.ls).ret ELSE first.ret
         IN  IF IsThrow(first.ret) THEN first
             ELSE IF IsThrow(gen.ret) THEN gen
             ELSE IF objectKeySeed.kind # "object" THEN Out(gen.ls, Throw("TypeError"))
             ELSE LET gk == generateKeysFromKeyPath(key, gen.ls, objectKeySeed.val[1],
                                                    objectKeySeed.num, DerivedKeys,
                                                    Rest(f, made))
                  IN  IF IsThrow(gk.ret) THEN gk
                      ELSE IF gk.ret.kind # "object" THEN Out(gk.ls, Throw("TypeError"))
                      ELSE LET inc == increaseKeyPath(key, gk.ls,
                                                      Rest(f, made + Len(gk.ret.val)))
                           IN  IF IsThrow(inc.ret) THEN inc
                               ELSE Out(inc.ls, RetArray(gk.ret.val))
    ELSE Out(ls, Undefined)

generateKeyRand(key, ls, w, f) ==
  IF ~isUnlock(key) THEN Out(ls, Undefined)
  ELSE LET privK == w
           addressHex == keyToHex(privateToAddress(privK))
           privKHexEncrypted == encrypt(key, <<keyToHex(privK)>>)
           r == insert(ls, AddrKey(addressHex), StoredCipher(privKHexEncrypted), f = 1)
       IN  IF IsThrow(r.ret) THEN r ELSE Out(r.ls, RetString(addressHex))

\* privKHex is what the caller passes: a string, or something else; undefined
\* and null have no constructor to read.
importKey(key, ls, privKHex, f) ==
  IF ~isUnlock(key) THEN Out(ls, Undefined)
  ELSE IF privKHex.kind \in {"undefined", "null"} THEN Out(ls, Throw("TypeError"))
  ELSE IF privKHex.kind # "string" THEN Out(ls, Undefined)
  ELSE LET privK == hexToKey(privKHex.val[1])
           addressHex == keyToHex(privateToAddress(privK))
           privKHexEncrypted == encrypt(key, privKHex.val)
           r == insert(ls, AddrKey(addressHex), StoredCipher(privKHexEncrypted), f = 1)
       IN  IF IsThrow(r.ret) THEN r ELSE Out(r.ls, RetString(addressHex))

hashPersonalMessage(message) == "hash(" \o message \o ")"
ecsign(msgHash, privK) == "sig(" \o msgHash \o "," \o privK \o ")"

sign(key, ls, addressHex, data) ==
  IF ~isUnlock(key) THEN Out(ls, RetString("KeyContainer blocked"))
  ELSE LET privKHexEncrypted == DbGet(ls, AddrKey(addressHex))
           msgHash == hashPersonalMessage(data)
       IN  IF decryptStoredFails(key, privKHexEncrypted)
             THEN Out(ls, Throw("DecryptionFailure"))
             ELSE LET privKHex == decrypt(key, privKHexEncrypted.parts[1])
                      sig == ecsign(msgHash, hexToKey(privKHex[1]))
                  IN  Out(ls, Ret("signature", <<data, msgHash, sig>>, NoNum))

kcEncrypt(key, ls, m) ==
  IF ~isUnlock(key) THEN Out(ls, Undefined)
  ELSE Out(ls, Ret("ciphertext", <<encrypt(key, <<m>>).key, m>>, NoNum))

kcDecrypt(key, ls, c) ==
  IF ~isUnlock(key) THEN Out(ls, Undefined)
  ELSE IF decryptFails(key, c) THEN Out(ls, Throw("DecryptionFailure"))
  ELSE Out(ls, Ret("string", decrypt(key, c), NoNum))

\* String.indexOf and String.replace on a key, for a pattern made of whole parts:
\* the position of the first occurrence (0: none), and the key without it.
IndexOf(k, pattern) ==
  LET at == {i \in 1..(Len(k) - Len(pattern) + 1) : SubSeq(k, i, i + Len(pattern) - 1) = pattern}
  IN  IF at = {} THEN 0 ELSE CHOOSE i \in at : \A j \in at : i <= j
Replace(k, pattern) ==
  LET i == IndexOf(k, pattern)
  IN  IF i = 0 THEN k ELSE SubSeq(k, 1, i - 1) \o SubSeq(k, i + Len(pattern), Len(k))
RECURSIVE Join(_)
Join(k) == IF k = <<>> THEN "" ELSE k[1] \o Join(Tail(k))

\* order is the keys as localStorage.key(0), key(1), ... hands them out: one
\* element per key that holds the pattern, in that order.
listKeys(ls, order) ==
  LET pattern == <<KCPREFIX, DBPREFIX>>
      found == SelectSeq(order, LAMBDA k : IndexOf(k, pattern) # 0)
      keysList == [i \in 1..Len(found) |-> Join(Replace(found[i], pattern))]
  IN  Out(ls, RetArray(keysList))

\* The keys listKeys does not skip, in every order (where the skipped keys
\* stand makes no difference to it).
ListedOrders(ls) == KeyOrders({k \in DOMAIN ls : IndexOf(k, <<KCPREFIX, DBPREFIX>>) # 0})

\* first is idSeedKey[0], the key that db.listKeys happens to list first (any of
\* those found).
getRecoveryAddr(key, ls, first) ==
  IF isUnlock(key)
    THEN LET idSeedKey == DbListKeys(ls, <<KCPREFIX, IDRECOVERYPREFIX>>)
         IN  IF idSeedKey = {} THEN Out(ls, Undefined)
             ELSE Out(ls, RetString(Join(Replace(first, <<KCPREFIX, IDRECOVERYPREFIX>>))))
    ELSE Out(ls, Undefined)

deleteKey_DeletesAll(ls, addressHex) == Out(DbDeleteAll(ls), Undefined)

deleteKey(ls, addressHex) == Out(DbDelete(ls, AddrKey(addressHex)), Undefined)
deleteAll(ls) == Out(DbDeleteAll(ls), Undefined)

(***************************************************************************)
(* Db.export and Db.import.  The JSON text of an object is the sequence of *)
(* its members; other texts a blob may hold are null and text that is no   *)
(* JSON at all.                                                            *)
(***************************************************************************)
JsonText(kind, members) == [kind |-> kind, members |-> members]
stringify(dbExp) ==
  JsonText("object", [j \in 1..Len(dbExp) |-> [name |-> dbExp[j][1], value |-> dbExp[j][2]]])

Contains(k, token) == \E i \in 1..Len(k) : k[i] = token

\* order is the keys as localStorage.key(0), key(1), ... hands them out: dbExp
\* gets its members in that order.
DbExportBlob(key, ls, order) ==
  LET names == SelectSeq(order, LAMBDA k : Contains(k, DBPREFIX))
      dbExp == [j \in 1..Len(names) |-> <<names[j], ls[names[j]]>>]
      dbExpStr == stringify(dbExp)
  IN  encrypt(key, dbExpStr)

\* The keys export does not skip, in every order.
Namespace(ls) == {k \in DOMAIN ls : Contains(k, DBPREFIX)}
ExportOrders(ls) == KeyOrders(Namespace(ls))

DbExport(key, ls) ==
  IF ~isUnlock(key) THEN Out(ls, Undefined) ELSE Out(ls, Ret("blob", <<>>, NoNum))

RECURSIVE setAll(_, _, _, _)
setAll(ls, members, j, f) ==
  IF j > Len(members) THEN Out(ls, Undefined)
  ELSE IF f = j THEN Out(ls, Throw("PersistenceFailure"))
  ELSE setAll(Put(ls, members[j].name, members[j].value), members, j + 1, f)

RECURSIVE insertEach(_, _, _)
insertEach(ls, members, j) ==
  IF j > Len(members) THEN Out(ls, Undefined)
  ELSE insertEach(DbInsert(ls, members[j].name, members[j].value), members, j + 1)

DbImport_InsertsPrefixed(key, ls, dbEncr, f) ==
  IF decryptFails(key, dbEncr) THEN Out(ls, Throw("DecryptionFailure"))
  ELSE insertEach(ls, decrypt(key, dbEncr).members, 1)

DbImport(key, ls, dbEncr, f) ==
  IF decryptFails(key, dbEncr) THEN Out(ls, Throw("DecryptionFailure"))
  ELSE LET dbExpStr == decrypt(key, dbEncr)
       IN  IF dbExpStr.kind = "garbage" THEN Out(ls, Throw("SyntaxError"))
           ELSE IF dbExpStr.kind = "null" THEN Out(ls, Undefined)
           ELSE setAll(ls, dbExpStr.members, 1, f)

(***************************************************************************)
(* Lock state machine.                                                     *)
(***************************************************************************)
Remember(name, r) == op' = name /\ ret' = r

unlock(passphrase) ==
  /\ nextTimerId <= MaxTimers
  /\ encryptionKey' = passToKey(passphrase, "salt")
  /\ timer' = nextTimerId
  /\ pending' = [t \in (DOMAIN pending) \cup {nextTimerId} |->
                   IF t = nextTimerId THEN AutoLockMs ELSE pending[t]]
  /\ nextTimerId' = nextTimerId + 1
  /\ Remember("unlock", Undefined)
  /\ UNCHANGED <<localStorage, backup>>

lock_KeepsKey ==
  /\ pending' = [t \in (DOMAIN pending) \ {timer} |-> pending[t]]
  /\ Remember("lock", Undefined)
  /\ UNCHANGED <<encryptionKey, timer, nextTimerId, localStorage, backup>>

lock ==
  /\ IF ~isUnlock(encryptionKey)
       THEN UNCHANGED <<encryptionKey, pending>>
       ELSE /\ pending' = [t \in (DOMAIN pending) \ {timer} |-> pending[t]]
            /\ encryptionKey' = ""
  /\ Remember("lock", Undefined)
  /\ UNCHANGED <<timer, nextTimerId, localStorage, backup>>

timerExpire_KeepsKey ==
  /\ DOMAIN pending # {}
  /\ LET t == CHOOSE x \in DOMAIN pending : \A y \in DOMAIN pending : x <= y IN
       /\ pending[t] = 0
       /\ pending' = [x \in (DOMAIN pending) \ {t} |-> pending[x]]
  /\ Remember("timeout", Undefined)
  /\ UNCHANGED <<encryptionKey, timer, nextTimerId, localStorage, backup>>

\* The callback of unlock's setTimeout: timeouts run in the order they are due.
timerExpire ==
  /\ DOMAIN pending # {}
  /\ LET t == CHOOSE x \in DOMAIN pending : \A y \in DOMAIN pending : x <= y IN
       /\ pending[t] = 0
       /\ pending' = [x \in (DOMAIN pending) \ {t} |-> pending[x]]
  /\ encryptionKey' = ""
  /\ Remember("timeout", Undefined)
  /\ UNCHANGED <<timer, nextTimerId, localStorage, backup>>

\* Wall-clock time passes.
Tick ==
  /\ \E t \in DOMAIN pending : pending[t] > 0
  /\ pending' = [t \in DOMAIN pending |->
                   IF pending[t] > TickMs THEN pending[t] - TickMs ELSE 0]
  /\ UNCHANGED <<encryptionKey, timer, nextTimerId, localStorage, backup, op, ret>>

Init ==
  /\ encryptionKey = ""
  /\ timer = 0
  /\ pending = [t \in {} |-> 0]
  /\ nextTimerId = 1
  /\ localStorage = EmptyStorage
  /\ backup = {}
  /\ op = "constructor"
  /\ ret = Undefined

(***************************************************************************)
(* The callers' inputs.                                                    *)
(***************************************************************************)
MnemonicInputs == MasterSeeds \cup {BadMnemonic}
KnownAddrs ==
  {keyToHex(privateToAddress(derive(ks, KeyPath("0", 0)))) : ks \in KeySeeds}
  \cup {keyToHex(privateToAddress(x)) : x \in ImportKeys}
SingleCoords == {<<0, 1>>}
ObjectNames == {"note"}
ObjectValues == {"v1"}
PrivKeyInputs ==
  {RetString(keyToHex(x)) : x \in ImportKeys} \cup {Ret("number", <<>>, NoNum), Undefined}
\* deleteKey takes any string for an address.
DeleteInputs == KnownAddrs \cup {"masterSeed"}
\* Db.insert and Db.delete called by another user of the Db.
DbInsertInputs == {<<"claims-1">>, keySeedKey, <<KCPREFIX, "keySeed", "-old">>}
DbInsertValues == {StoredText("c1"), StoredRaw("c1")}
DbDeleteInputs == {masterSeedKey, <<"claims-1">>}
CipherInputs == {encrypt(k, <<m>>) : k \in KeysOfPassphrases, m \in Messages}
\* Blobs that no export of this store produced: null, text that is no JSON, and
\* the entries of another application sharing localStorage.
ForeignEntry == [name |-> <<"app-", "settings">>, value |-> [fmt |-> "text", parts |-> <<>>]]
CraftedBlobs ==
  {encrypt(k, JsonText(kind, <<>>)) : k \in KeysOfPassphrases, kind \in {"null", "garbage"}}
  \cup {encrypt(k, JsonText("object", <<ForeignEntry>>)) : k \in KeysOfPassphrases}

\* The key seed record as it lies in localStorage, whatever key encrypts it.
HasKeySeed(ls) == DbKey(keySeedKey) \in DOMAIN ls /\ ls[DbKey(keySeedKey)].fmt = "json"
PathCounter(ls) == readUInt32BE(hexToBytes(ls[DbKey(keySeedKey)].parts[2].pt))
\* The counter is followed from 0 up to MaxPath, across 2^31 up to 2^31 + 1,
\* and in the last 65536 values below 2^32, where writeUInt32BE itself stops it.
BelowMaxPath(ls) ==
  HasKeySeed(ls) =>
    \/ NumLess(PathCounter(ls), Small(MaxPath))
    \/ /\ PathCounter(ls).hi = HARDENED_OFFSET.hi - 1
       /\ PathCounter(ls).lo >= Half - 2
    \/ PathCounter(ls) = HARDENED_OFFSET
    \/ PathCounter(ls).hi = Half - 1

(***************************************************************************)
(* One action per method of the container and of Db.                       *)
(***************************************************************************)
Call(name, out) ==
  /\ localStorage' = out.ls
  /\ Remember(name, out.ret)
  /\ UNCHANGED <<encryptionKey, timer, pending, nextTimerId, backup>>

isUnlockCall ==
  Call("isUnlock", Out(localStorage, IF isUnlock(encryptionKey) THEN RetTrue ELSE RetFalse))

generateMasterSeedCall ==
  \E m \in MnemonicInputs, f \in 0..1 :
    Call("generateMasterSeed", generateMasterSeed(encryptionKey, localStorage, m, f))

saveMasterSeedCall ==
  \E m \in MasterSeeds, f \in 0..1 :
    Call("saveMasterSeed", saveMasterSeed(encryptionKey, localStorage, m, f))

saveObjectCall ==
  \E n \in ObjectNames, v \in ObjectValues, f \in 0..1 :
    Call("saveObject", saveObject(localStorage, n, v, f))

getMasterSeedCall ==
  Call("getMasterSeed", getMasterSeed(encryptionKey, localStorage, encryptionKey))

createKeysCall ==
  /\ BelowMaxPath(localStorage)
  /\ \E f \in 0..(DerivedKeys + 3) :
       Call("createKeys", createKeys(encryptionKey, localStorage, f))

generateKeySeedCall ==
  \E m \in MasterSeeds, f \in 0..1 :
    Call("generateKeySeed", generateKeySeed(encryptionKey, localStorage, RetString(m), f))

getKeySeedCall == Call("getKeySeed", getKeySeed(encryptionKey, localStorage))

increaseKeyPathCall ==
  /\ BelowMaxPath(localStorage)
  /\ \E f \in 0..1 : Call("increaseKeyPath", increaseKeyPath(encryptionKey, localStorage, f))

generateRecoveryAddrCall ==
  \E m \in MasterSeeds, f \in 0..1 :
    Call("generateRecoveryAddr", generateRecoveryAddr(encryptionKey, localStorage, m, f))

\* generateRecoveryAddr does not validate the seed it is given: the same call
\* with any string for a seed.
generateRecoveryAddrAnyCall ==
  \E m \in MnemonicInputs, f \in 0..1 :
    Call("generateRecoveryAddr", generateRecoveryAddr(encryptionKey, localStorage, m, f))

getRecoveryAddrCall ==
  LET idSeedKey == DbListKeys(localStorage, <<KCPREFIX, IDRECOVERYPREFIX>>)
  IN  \E first \in (IF idSeedKey = {} THEN {<<>>} ELSE idSeedKey) :
        Call("getRecoveryAddr", getRecoveryAddr(encryptionKey, localStorage, first))

generateSingleKeyCall ==
  \E c \in SingleCoords, f \in 0..1 :
    Call("generateSingleKey",
         generateSingleKey(encryptionKey, localStorage, Small(c[1]), c[2], f))

generateKeysFromKeyPathCall ==
  \E m \in KeySeeds \cup {BadMnemonic}, f \in 0..(DerivedKeys + 1) :
    Call("generateKeysFromKeyPath",
         generateKeysFromKeyPath(encryptionKey, localStorage, m, Small(0), DerivedKeys, f))

generateKeyRandCall ==
  \E w \in RandKeys, f \in 0..1 :
    Call("generateKeyRand", generateKeyRand(encryptionKey, localStorage, w, f))

importKeyCall ==
  \E x \in PrivKeyInputs, f \in 0..1 :
    Call("importKey", importKey(encryptionKey, localStorage, x, f))

signCall ==
  \E a \in KnownAddrs, d \in Messages :
    Call("sign", sign(encryptionKey, localStorage, a, d))

encryptCall == \E m \in Messages : Call("encrypt", kcEncrypt(encryptionKey, localStorage, m))

decryptCall == \E c \in CipherInputs : Call("decrypt", kcDecrypt(encryptionKey, localStorage, c))

listKeysCall ==
  \E order \in ListedOrders(localStorage) : Call("listKeys", listKeys(localStorage, order))

deleteKeyCall == \E a \in DeleteInputs : Call("deleteKey", deleteKey(localStorage, a))

DbInsertCall ==
  \E k \in DbInsertInputs, v \in DbInsertValues, f \in 0..1 :
    Call("Db.insert", insert(localStorage, k, v, f = 1))

DbDeleteCall ==
  \E k \in DbDeleteInputs : Call("Db.delete", Out(DbDelete(localStorage, k), Undefined))

deleteAllCall == Call("deleteAll", deleteAll(localStorage))

\* The caller keeps the blob while it has room and the store is small.
exportCall ==
  /\ Remember("export", DbExport(encryptionKey, localStorage).ret)
  /\ IF /\ isUnlock(encryptionKey)
        /\ Cardinality(backup) < MaxBackups
        /\ Cardinality(Namespace(localStorage)) <= MaxBlobMembers
       THEN \E order \in ExportOrders(localStorage) :
              backup' = backup \cup {DbExportBlob(encryptionKey, localStorage, order)}
       ELSE backup' = backup
  /\ UNCHANGED <<encryptionKey, timer, pending, nextTimerId, localStorage>>

\* Any of the loop's localStorage.setItem calls can be the one that throws.
importCall ==
  \E dbEncr \in backup \cup CraftedBlobs :
    \E f \in 0..Len(dbEncr.pt.members) :
      Call("import", DbImport(encryptionKey, localStorage, dbEncr, f))

\* The lock state machine on its own.
LockNext ==
  \/ \E p \in Passphrases : unlock(p)
  \/ lock
  \/ timerExpire
  \/ Tick
  \/ isUnlockCall
  \/ signCall
  \/ encryptCall
  \/ decryptCall

LockSpec == Init /\ [][LockNext]_vars

\* Time passes, and the event loop runs a timeout that is due.
LockLiveSpec == LockSpec /\ WF_vars(Tick) /\ WF_vars(timerExpire)

\* The master seed and the keys stored one by one.
SeedNext ==
  \/ \E p \in Passphrases : unlock(p)
  \/ lock
  \/ timerExpire
  \/ Tick
  \/ generateMasterSeedCall
  \/ saveMasterSeedCall
  \/ getMasterSeedCall
  \/ generateRecoveryAddrCall
  \/ generateKeyRandCall
  \/ importKeyCall
  \/ signCall
  \/ encryptCall
  \/ decryptCall
  \/ deleteKeyCall
  \/ deleteAllCall
  \/ saveObjectCall
  \/ listKeysCall

SeedSpec == Init /\ [][SeedNext]_vars

\* The key seed record, its path counter and the keys derived from it.
PathNext ==
  \/ \E p \in Passphrases : unlock(p)
  \/ lock
  \/ timerExpire
  \/ Tick
  \/ generateMasterSeedCall
  \/ createKeysCall
  \/ generateKeySeedCall
  \/ getKeySeedCall
  \/ increaseKeyPathCall
  \/ generateSingleKeyCall
  \/ deleteAllCall

PathSpec == Init /\ [][PathNext]_vars

\* Export and import of the whole store.
BackupNext ==
  \/ \E p \in Passphrases : unlock(p)
  \/ lock
  \/ timerExpire
  \/ Tick
  \/ generateMasterSeedCall
  \/ generateKeySeedCall
  \/ importKeyCall
  \/ deleteAllCall
  \/ exportCall
  \/ importCall

BackupSpec == Init /\ [][BackupNext]_vars

\* The master seed next to the operations that derive from it or store beside it.
MasterNext ==
  \/ \E p \in Passphrases : unlock(p)
  \/ lock
  \/ timerExpire
  \/ Tick
  \/ generateMasterSeedCall
  \/ getMasterSeedCall
  \/ createKeysCall
  \/ generateKeySeedCall
  \/ generateRecoveryAddrCall
  \/ importKeyCall
  \/ signCall
  \/ deleteAllCall

MasterSpec == Init /\ [][MasterNext]_vars

\* The recovery address next to the key seed record and ordinary keys.
RecoveryNext ==
  \/ \E p \in Passphrases : unlock(p)
  \/ lock
  \/ timerExpire
  \/ Tick
  \/ generateKeySeedCall
  \/ increaseKeyPathCall
  \/ importKeyCall
  \/ generateRecoveryAddrAnyCall
  \/ getRecoveryAddrCall
  \/ deleteAllCall

RecoverySpec == Init /\ [][RecoveryNext]_vars

\* A store whose counter was increased many times: its key seed record,
\* written under the key of a passphrase, holds a counter two below 2^31 (the
\* last profiles hdkey derives) or two below 2^32 (the last values
\* writeUInt32BE writes).
MaxUInt32 == Num(Half - 1, Half - 1)
WornCounters == {Num(HARDENED_OFFSET.hi - 1, Half - 2), Num(Half - 1, Half - 2)}

WornStorage(key, masterSeed, pathKey) ==
  DbInsert(EmptyStorage, keySeedKey,
           StoredJson(encrypt(key, <<KeySeedOf(masterSeed)>>),
                      encrypt(key, bytesToHex(writeUInt32BE(pathKey)))))

WrapInit ==
  /\ encryptionKey = ""
  /\ timer = 0
  /\ pending = [t \in {} |-> 0]
  /\ nextTimerId = 1
  /\ localStorage \in {WornStorage(k, m, c) : k \in KeysOfPassphrases, m \in MasterSeeds,
                                               c \in WornCounters}
  /\ backup = {}
  /\ op = "constructor"
  /\ ret = Undefined

WrapNext ==
  \/ \E p \in Passphrases : unlock(p)
  \/ lock
  \/ timerExpire
  \/ Tick
  \/ createKeysCall
  \/ increaseKeyPathCall
  \/ getKeySeedCall

WrapSpec == WrapInit /\ [][WrapNext]_vars

\* The operations that use the key for several steps, next to the timer.
SessionNext ==
  \/ \E p \in Passphrases : unlock(p)
  \/ lock
  \/ timerExpire
  \/ Tick
  \/ generateMasterSeedCall
  \/ createKeysCall
  \/ increaseKeyPathCall
  \/ signCall
  \/ exportCall

SessionSpec == Init /\ [][SessionNext]_vars

Next ==
  \/ \E p \in Passphrases : unlock(p)
  \/ lock
  \/ timerExpire
  \/ Tick
  \/ isUnlockCall
  \/ saveObjectCall
  \/ listKeysCall
  \/ generateMasterSeedCall
  \/ saveMasterSeedCall
  \/ getMasterSeedCall
  \/ createKeysCall
  \/ generateKeySeedCall
  \/ getKeySeedCall
  \/ increaseKeyPathCall
  \/ generateRecoveryAddrCall
  \/ generateRecoveryAddrAnyCall
  \/ getRecoveryAddrCall
  \/ generateSingleKeyCall
  \/ generateKeysFromKeyPathCall
  \/ generateKeyRandCall
  \/ importKeyCall
  \/ signCall
  \/ encryptCall
  \/ decryptCall
  \/ deleteKeyCall
  \/ deleteAllCall
  \/ exportCall
  \/ importCall
  \/ DbInsertCall
  \/ DbDeleteCall

Spec == Init /\ [][Next]_vars

(***************************************************************************)
(* Properties.                                                             *)
(***************************************************************************)
\* A step in which a method other than unlock and lock ran: the lock state
\* and the timers are as before, and no time passed.
CallStep ==
  /\ encryptionKey' = encryptionKey
  /\ timer' = timer
  /\ pending' = pending
  /\ nextTimerId' = nextTimerId

\* What a method hands back when it finds the container locked.
NotUnlockedOutcome(r) ==
  \/ r.kind \in {"undefined", "false"}
  \/ r.kind = "string" /\ r.val = <<"KeyContainer blocked">>

\* C1: isUnlock() called right after unlock(P) returns true, called right
\* after lock() returns false, and called on the fresh container returns false.
C1_IsUnlockAfterUnlockAndLock ==
  [][(op' = "isUnlock" /\ CallStep) =>
       /\ op = "unlock" => ret'.kind = "true"
       /\ op = "lock" => ret'.kind = "false"
       /\ op = "constructor" => ret'.kind = "false"]_vars

C1_Witness ==
  /\ op = "isUnlock"
  /\ ret.kind = "true"
  /\ isUnlock(encryptionKey)
  /\ timer \in DOMAIN pending

\* C2: auto-lock.  Once unlocked, the container is eventually locked again,
\* given that time passes and that a due timeout is run.
C2_AutoLock == isUnlock(encryptionKey) ~> ~isUnlock(encryptionKey)

C2_Witness ==
  /\ op = "timeout"
  /\ ~isUnlock(encryptionKey)
  /\ timer \notin DOMAIN pending

\* C3: at most one auto-lock deadline is pending, the one of the most recent
\* unlock(); while that deadline is pending and not yet due the container is
\* unlocked (no timeout of an earlier unlock locks it).
C3_OnlyLatestDeadline ==
  /\ \A t \in DOMAIN pending : t = timer
  /\ (timer \in DOMAIN pending /\ pending[timer] > 0) => isUnlock(encryptionKey)

\* C4: a key-touching method invoked while the container is locked hands back
\* a not-unlocked outcome and writes nothing to localStorage.  (sign returns
\* before its db.get, so what it hands back also tells that nothing was read.)
KeyTouchingOps ==
  {"generateMasterSeed", "saveMasterSeed", "getMasterSeed", "createKeys",
   "generateKeySeed", "getKeySeed", "increaseKeyPath", "generateRecoveryAddr",
   "generateSingleKey", "generateKeysFromKeyPath", "generateKeyRand", "importKey",
   "sign", "encrypt", "decrypt"}

C4_LockedCallsFail ==
  [][(CallStep /\ ~isUnlock(encryptionKey) /\ op' \in KeyTouchingOps) =>
       /\ NotUnlockedOutcome(ret')
       /\ localStorage' = localStorage]_vars

\* C5: a successful createKeys() derives its keys at the profile index the
\* path counter held when it was called (0 when it had to create the record),
\* and leaves the counter one greater; hence n calls that start at counter c
\* use the indices c .. c+n-1 and end at c+n.
CounterOrZero(ls) == IF HasKeySeed(ls) THEN PathCounter(ls) ELSE Small(0)
KeySeedIn(ls) == ls[DbKey(keySeedKey)].parts[1].pt[1]
IdAt(ks, p, i, pub) ==
  LET k == derive(ks, KeyPath(NumToString(p), i))
  IN  keyToHex(IF pub THEN publicKeyOf(k) ELSE privateToAddress(k))
ProfileIds(ks, p) ==
  <<IdAt(ks, p, 0, FALSE), IdAt(ks, p, 0, TRUE), IdAt(ks, p, 1, FALSE), IdAt(ks, p, 2, FALSE)>>

C5_PathMonotonicity ==
  [][(CallStep /\ op' = "createKeys" /\ ret'.kind = "array") =>
       /\ HasKeySeed(localStorage')
       /\ PathCounter(localStorage') = Plus1(CounterOrZero(localStorage))
       /\ ret'.val = ProfileIds(KeySeedIn(localStorage'), CounterOrZero(localStorage))
       /\ \A q \in 0..MaxPath :
            NumLess(Small(q), CounterOrZero(localStorage)) =>
              \A x \in 1..4 : \A y \in 1..4 :
                ret'.val[x] # ProfileIds(KeySeedIn(localStorage'), Small(q))[y]]_vars

C5_Witness ==
  /\ op = "createKeys"
  /\ ret.kind = "array"
  /\ HasKeySeed(localStorage)
  /\ PathCounter(localStorage) = Small(2)
  /\ ret.val = ProfileIds(KeySeedIn(localStorage), Small(1))

\* C6: createKeys() is all-or-nothing.  When one of its inserts fails the path
\* counter has not advanced and no key entry of the store has been added or
\* changed; when it succeeds the four identifiers it returns are stored and
\* the counter is one greater.
KeyEntries(ls) == {k \in DOMAIN ls : ls[k].fmt = "cipher" /\ k # DbKey(masterSeedKey)}

C6_CreateKeysAtomic ==
  [][(CallStep /\ op' = "createKeys" /\ isUnlock(encryptionKey)) =>
       /\ ret' = Throw("PersistenceFailure") =>
            /\ CounterOrZero(localStorage') = CounterOrZero(localStorage)
            /\ \A k \in KeyEntries(localStorage') :
                 k \in DOMAIN localStorage /\ localStorage'[k] = localStorage[k]
       /\ ret'.kind = "array" =>
            /\ \A x \in 1..Len(ret'.val) : DbKey(AddrKey(ret'.val[x])) \in DOMAIN localStorage'
            /\ PathCounter(localStorage') = Plus1(CounterOrZero(localStorage))]_vars

\* C7: the persisted path counter never becomes smaller than it was, and it
\* changes only in a step taken while the container is unlocked.
C7_CounterNeverDecreases ==
  [][(HasKeySeed(localStorage) /\ HasKeySeed(localStorage')) =>
       /\ ~NumLess(PathCounter(localStorage'), PathCounter(localStorage))
       /\ PathCounter(localStorage') # PathCounter(localStorage) => isUnlock(encryptionKey)]_vars

\* C8: export/import round trip.  While unlocked, importing the blob that
\* export() makes of the store into the emptied localStorage, under the same
\* key, succeeds and leaves exactly the entries of the store's namespace, each
\* with the value it had, in whatever order export() met the keys.
C8_ExportImportRoundTrip ==
  isUnlock(encryptionKey) =>
    \A order \in ExportOrders(localStorage) :
      LET blob == DbExportBlob(encryptionKey, localStorage, order)
          r == DbImport(encryptionKey, DbDeleteAll(localStorage), blob, 0)
      IN  /\ ~IsThrow(r.ret)
          /\ DOMAIN r.ls = Namespace(localStorage)
          /\ \A k \in Namespace(localStorage) : r.ls[k] = localStorage[k]

C8_Witness ==
  /\ op = "import"
  /\ ret.kind = "undefined"
  /\ isUnlock(encryptionKey)
  /\ Cardinality(Namespace(localStorage)) >= 2
  /\ \E order \in ExportOrders(localStorage) :
       DbExportBlob(encryptionKey, localStorage, order) \in backup

\* C9: export() and import(blob) on a locked container hand back a
\* not-unlocked outcome and leave localStorage as it was; import, unlocked, of
\* a blob that decrypts to something that is no set of entries fails and
\* writes nothing.
C9_ExportImportErrors ==
  [][(CallStep /\ op' \in {"export", "import"}) =>
       /\ ~isUnlock(encryptionKey) =>
            NotUnlockedOutcome(ret') /\ localStorage' = localStorage
       /\ \A b \in CraftedBlobs :
            (isUnlock(encryptionKey) /\ ~decryptFails(encryptionKey, b)
               /\ decrypt(encryptionKey, b).kind # "object") =>
              LET r == DbImport(encryptionKey, localStorage, b, 0)
              IN  IsThrow(r.ret) /\ r.ls = localStorage]_vars

\* C10: while unlocked, an entry encrypted under the key of another passphrase
\* is told apart from an entry that is absent: sign does not hand back the
\* same outcome for the two, and neither does getMasterSeed.
UnderOtherPassphrase(key, stored) ==
  /\ stored.fmt = "cipher"
  /\ stored.parts[1].key \in KeysOfPassphrases \ {key}

C10_MismatchIsNotMiss ==
  isUnlock(encryptionKey) =>
    /\ \A a \in KnownAddrs, d \in Messages :
         LET stored == DbGet(localStorage, AddrKey(a))
         IN  UnderOtherPassphrase(encryptionKey, stored) =>
               sign(encryptionKey, localStorage, a, d).ret
                 # sign(encryptionKey, DbDelete(localStorage, AddrKey(a)), a, d).ret
    /\ LET stored == DbGet(localStorage, masterSeedKey)
       IN  UnderOtherPassphrase(encryptionKey, stored) =>
             getMasterSeed(encryptionKey, localStorage, encryptionKey).ret
               # getMasterSeed(encryptionKey, DbDelete(localStorage, masterSeedKey),
                               encryptionKey).ret

\* C11: the timeout never takes effect inside an operation.  A step of
\* createKeys, increaseKeyPath, generateKeysFromKeyPath, sign or export taken
\* while unlocked leaves the key as it was, everything it writes or exports is
\* encrypted under that one non-empty key, and a signature is made only from an
\* entry that key decrypts.
KeyMaterialOps == {"createKeys", "increaseKeyPath", "generateKeysFromKeyPath", "sign", "export"}
WrittenUnder(key, v) ==
  /\ v.fmt \in {"cipher", "json"}
  /\ \A i \in 1..Len(v.parts) : v.parts[i].key = key

C11_TimerSerializes ==
  [][(op' \in KeyMaterialOps /\ isUnlock(encryptionKey)) =>
       /\ encryptionKey' = encryptionKey
       /\ \A k \in DOMAIN localStorage' :
            (k \notin DOMAIN localStorage \/ localStorage'[k] # localStorage[k]) =>
              WrittenUnder(encryptionKey, localStorage'[k])
       /\ \A b \in backup' \ backup : b.key = encryptionKey
       /\ (op' = "sign" /\ ret'.kind = "signature") =>
            \E a \in KnownAddrs :
              ~decryptStoredFails(encryptionKey, DbGet(localStorage, AddrKey(a)))]_vars

\* createKeys has returned its keys although the deadline was already due.
C11_Witness ==
  /\ op = "createKeys"
  /\ ret.kind = "array"
  /\ isUnlock(encryptionKey)
  /\ timer \in DOMAIN pending
  /\ pending[timer] = 0
  /\ \A x \in 1..Len(ret.val) :
       WrittenUnder(encryptionKey, DbGet(localStorage, AddrKey(ret.val[x])))

\* C12: a failed write is never masked.  For every operation that writes and
\* every input, when one of its db.insert calls fails (the outcome differs from
\* the one without failure) the caller gets the failure itself: the operation
\* throws it, and returns neither true, nor an address or key list, nor false.
WriteOutcomes(key, ls, f) ==
  {<<saveObject(ls, n, v, 0), saveObject(ls, n, v, f)>> : n \in ObjectNames, v \in ObjectValues}
  \cup {<<generateMasterSeed(key, ls, m, 0), generateMasterSeed(key, ls, m, f)>> :
          m \in MnemonicInputs}
  \cup {<<generateKeySeed(key, ls, RetString(m), 0), generateKeySeed(key, ls, RetString(m), f)>> :
          m \in MasterSeeds}
  \cup {<<increaseKeyPath(key, ls, 0), increaseKeyPath(key, ls, f)>>}
  \cup {<<createKeys(key, ls, 0), createKeys(key, ls, f)>>}
  \cup {<<generateSingleKey(key, ls, Small(c[1]), c[2], 0),
          generateSingleKey(key, ls, Small(c[1]), c[2], f)>> : c \in SingleCoords}
  \cup {<<generateRecoveryAddr(key, ls, m, 0), generateRecoveryAddr(key, ls, m, f)>> :
          m \in MasterSeeds}
  \cup {<<generateKeyRand(key, ls, w, 0), generateKeyRand(key, ls, w, f)>> : w \in RandKeys}
  \cup {<<importKey(key, ls, x, 0), importKey(key, ls, x, f)>> : x \in PrivKeyInputs}

C12_FailedWriteNotMasked ==
  \A f \in 1..(DerivedKeys + 3) :
    \A pr \in WriteOutcomes(encryptionKey, localStorage, f) :
      pr[2] # pr[1] => pr[2].ret = Throw("PersistenceFailure")

\* C13: listKeys() enumerates the store.  What it returns are identifiers
\* persisted under the store's namespace, prefixes stripped, and every address
\* that importKey, generateKeyRand, generateSingleKey or createKeys stored and
\* deleteKey has not removed is among them.
StoreIds(ls) ==
  {Join(SubSeq(k, 3, Len(k))) : k \in {x \in DOMAIN ls : IsPrefix(<<DBPREFIX, KCPREFIX>>, x)}}
StoredAddresses(ls) ==
  {a \in {keyToHex(privateToAddress(x)) : x \in PrivKeys} : DbKey(AddrKey(a)) \in DOMAIN ls}

C13_ListKeysEnumerates ==
  \A order \in ListedOrders(localStorage) :
    LET r == listKeys(localStorage, order).ret
        listed == {r.val[i] : i \in 1..Len(r.val)}
    IN  /\ listed \subseteq StoreIds(localStorage)
        /\ StoredAddresses(localStorage) \subseteq listed

\* C14: deleteKey and deleteAll need no unlocked container and leave the key
\* and the timers alone; deleteKey(address) removes the entry of that address
\* and nothing else, deleteAll leaves no entry of the store's namespace.
DeleteStep(name) == op' = name /\ (op # name \/ localStorage' # localStorage)

C14_DeleteFrame ==
  [][/\ (DeleteStep("deleteKey") \/ DeleteStep("deleteAll")) =>
          /\ encryptionKey' = encryptionKey
          /\ timer' = timer
          /\ pending' = pending
     /\ DeleteStep("deleteKey") =>
          \E a \in DeleteInputs :
            /\ DOMAIN localStorage' = (DOMAIN localStorage) \ {DbKey(AddrKey(a))}
            /\ \A k \in DOMAIN localStorage' : localStorage'[k] = localStorage[k]
     /\ DeleteStep("deleteAll") => Namespace(localStorage') = {}]_vars

\* deleteKey ran on the locked container: the key is gone, the master seed stays.
C14_Witness ==
  /\ op = "deleteKey"
  /\ ~isUnlock(encryptionKey)
  /\ DbKey(masterSeedKey) \in DOMAIN localStorage
  /\ \E w \in RandKeys : DbKey(AddrKey(keyToHex(privateToAddress(w)))) \in DOMAIN localStorage
  /\ \A a \in KnownAddrs : DbKey(AddrKey(a)) \notin DOMAIN localStorage

\* C15: generateSingleKey(profileIndex, keyIndex), unlocked and with a key seed
\* record, stores one entry, the derived address with its encrypted private
\* key, and changes nothing else (the key seed record and its counter stay);
\* called again with the same coordinates it returns the same address and the
\* stored identifiers are the same.
C15_SingleKeyFrame ==
  [][(op' = "generateSingleKey" /\ ret'.kind = "string" /\ isUnlock(encryptionKey)) =>
       \E c \in SingleCoords :
         LET id == DbKey(AddrKey(ret'.val[1]))
             privK == derive(KeySeedIn(localStorage), KeyPath(NumToString(Small(c[1])), c[2]))
             again == generateSingleKey(encryptionKey', localStorage', Small(c[1]), c[2], 0)
         IN  /\ HasKeySeed(localStorage)
             /\ ret'.val[1] = keyToHex(privateToAddress(privK))
             /\ DOMAIN localStorage' = (DOMAIN localStorage) \cup {id}
             /\ \A k \in (DOMAIN localStorage') \ {id} : localStorage'[k] = localStorage[k]
             /\ localStorage'[id] = StoredCipher(encrypt(encryptionKey, <<keyToHex(privK)>>))
             /\ PathCounter(localStorage') = PathCounter(localStorage)
             /\ again.ret = ret'
             /\ DOMAIN again.ls = DOMAIN localStorage']_vars

\* The store holds the key seed record and the one key generateSingleKey made.
C15_Witness ==
  /\ op = "generateSingleKey"
  /\ ret.kind = "string"
  /\ isUnlock(encryptionKey)
  /\ DOMAIN localStorage = {DbKey(keySeedKey), DbKey(AddrKey(ret.val[1]))}
  /\ PathCounter(localStorage) = Small(0)

\* C16: every value the container has stored (master seed, key seed record,
\* address, public key and recovery entries, saved objects) is ciphertext made
\* under the key of a passphrase: never a plain text and never encrypted under
\* the empty key of the locked container.
KeyMaterialEntries(ls) == {k \in DOMAIN ls : IsPrefix(<<DBPREFIX, KCPREFIX>>, k)}

C16_StoredIsCiphertext ==
  \A k \in KeyMaterialEntries(localStorage) :
    /\ localStorage[k].fmt \in {"cipher", "json"}
    /\ \A i \in 1..Len(localStorage[k].parts) :
         localStorage[k].parts[i].key \in KeysOfPassphrases

\* C17: a successful createKeys().  With no key seed record it first makes one
\* from the stored master seed, counter 0.  With p the counter at the start, it
\* stores the keys derived at (keySeed, p, 0..2), each under its address and
\* encrypted under the key, stores key 0 once more under its public key with
\* the very same ciphertext, leaves the counter at p + 1, changes no other
\* entry, and returns [address0, publicKey0, address1, address2].
MasterSeedIn(ls) == ls[DbKey(masterSeedKey)].parts[1].pt[1]

C17_CreateKeysEffect ==
  [][(CallStep /\ op' = "createKeys" /\ ret'.kind = "array") =>
       LET p == CounterOrZero(localStorage)
           ks == KeySeedIn(localStorage')
           ids == {DbKey(AddrKey(ret'.val[x])) : x \in 1..Len(ret'.val)}
       IN  /\ isUnlock(encryptionKey)
           /\ HasKeySeed(localStorage')
           /\ IF HasKeySeed(localStorage)
                THEN ks = KeySeedIn(localStorage)
                ELSE ks = KeySeedOf(MasterSeedIn(localStorage))
           /\ PathCounter(localStorage') = Plus1(p)
           /\ WrittenUnder(encryptionKey, localStorage'[DbKey(keySeedKey)])
           /\ ret'.val = ProfileIds(ks, p)
           /\ \A i \in 0..(DerivedKeys - 1) :
                localStorage'[DbKey(AddrKey(IdAt(ks, p, i, FALSE)))]
                  = StoredCipher(encrypt(encryptionKey,
                                         <<keyToHex(derive(ks, KeyPath(NumToString(p), i)))>>))
           /\ localStorage'[DbKey(AddrKey(IdAt(ks, p, 0, TRUE)))]
                = localStorage'[DbKey(AddrKey(IdAt(ks, p, 0, FALSE)))]
           /\ DOMAIN localStorage' = (DOMAIN localStorage) \cup ids \cup {DbKey(keySeedKey)}
           /\ \A k \in (DOMAIN localStorage) \ (ids \cup {DbKey(keySeedKey)}) :
                localStorage'[k] = localStorage[k]]_vars

\* The first createKeys() of a store that held only the master seed.
C17_Witness ==
  /\ op = "createKeys"
  /\ ret.kind = "array"
  /\ Len(ret.val) = DerivedKeys + 1
  /\ isUnlock(encryptionKey)
  /\ PathCounter(localStorage) = Small(1)
  /\ DOMAIN localStorage =
       {DbKey(masterSeedKey), DbKey(keySeedKey)}
         \cup {DbKey(AddrKey(ret.val[x])) : x \in 1..Len(ret.val)}

\* C18: the key seed record round trip.  Unlocked, getKeySeed() returns
\* undefined when there is no record; after a successful generateKeySeed(m) it
\* returns the key seed derived from m with counter 0; after a successful
\* increaseKeyPath() it returns the key seed it returned before with a counter
\* one greater; and a record written under the key of a passphrase reads back
\* as stored whenever the container is unlocked with that passphrase.
C18_KeySeedRoundTrip ==
  [][/\ (CallStep /\ op' = "getKeySeed" /\ isUnlock(encryptionKey)
           /\ DbListKeys(localStorage, keySeedKey) = {}) => ret' = Undefined
     /\ (CallStep /\ op' = "generateKeySeed" /\ ret'.kind = "true") =>
          \E m \in MasterSeeds :
            getKeySeed(encryptionKey', localStorage').ret
              = Ret("object", <<KeySeedOf(m)>>, Small(0))
     /\ (CallStep /\ op' = "increaseKeyPath" /\ ret'.kind = "true") =>
          LET before == getKeySeed(encryptionKey, localStorage).ret
              after == getKeySeed(encryptionKey', localStorage').ret
          IN  /\ before.kind = "object"
              /\ after.kind = "object"
              /\ after.val = before.val
              /\ after.num = Plus1(before.num)
     /\ \A p \in Passphrases :
          (localStorage' # localStorage /\ HasKeySeed(localStorage')
             /\ WrittenUnder(passToKey(p, "salt"), localStorage'[DbKey(keySeedKey)])) =>
            getKeySeed(passToKey(p, "salt"), localStorage').ret
              = Ret("object", <<KeySeedIn(localStorage')>>, PathCounter(localStorage'))]_vars

\* getKeySeed(), in a second session, returns the counter increased before.
C18_Witness ==
  /\ op = "getKeySeed"
  /\ ret.kind = "object"
  /\ ret.num = Small(1)
  /\ ret.val = <<KeySeedIn(localStorage)>>
  /\ isUnlock(encryptionKey)
  /\ nextTimerId >= 3

\* C19: createKeys() without a usable master seed.  A step in which createKeys
\* was called:
CreateKeysStep ==
  /\ op' = "createKeys"
  /\ op # "createKeys" \/ ret' # ret \/ localStorage' # localStorage

NoUsableMasterSeed(key, ls) == getMasterSeed(key, ls, key).ret.kind = "undefined"

\* it throws, and store, key and timers are as before;
FailsAndChangesNothing ==
  /\ IsThrow(ret')
  /\ localStorage' = localStorage
  /\ encryptionKey' = encryptionKey
  /\ timer' = timer
  /\ pending' = pending

\* generateMasterSeed(m) and then createKeys() succeed.
Recovers(key, ls) ==
  \A m \in MasterSeeds :
    LET g == generateMasterSeed(key, ls, m, 0)
    IN  g.ret = RetTrue /\ createKeys(key, g.ls, 0).ret.kind = "array"

\* C19 as stated: createKeys() called while unlocked, with no master seed
\* stored or none the current key decrypts, reports an error, changes nothing,
\* and generateMasterSeed() followed by createKeys() then succeeds.
C19_NoMasterSeedFails ==
  [][(CreateKeysStep /\ isUnlock(encryptionKey)
        /\ NoUsableMasterSeed(encryptionKey, localStorage)) =>
       FailsAndChangesNothing /\ Recovers(encryptionKey', localStorage')]_vars

\* C19, amended: the same, given that no key seed record is stored either; and
\* with a record the current key does not decrypt, createKeys() throws and
\* changes nothing.
C19_NoSeedsFails ==
  [][/\ (CreateKeysStep /\ isUnlock(encryptionKey)
           /\ DbListKeys(localStorage, keySeedKey) = {}
           /\ NoUsableMasterSeed(encryptionKey, localStorage)) =>
          FailsAndChangesNothing /\ Recovers(encryptionKey', localStorage')
     /\ (CreateKeysStep /\ isUnlock(encryptionKey) /\ HasKeySeed(localStorage)
           /\ ~WrittenUnder(encryptionKey, localStorage[DbKey(keySeedKey)])) =>
          FailsAndChangesNothing]_vars

\* createKeys() has thrown on the unlocked, empty store.
C19_Witness ==
  /\ op = "createKeys"
  /\ ret = Throw("TypeError")
  /\ isUnlock(encryptionKey)
  /\ DOMAIN localStorage = {}
  /\ Recovers(encryptionKey, localStorage)

\* C20: generateMasterSeed(mnemonic) returns true, and overwrites the master
\* seed entry, exactly when the container is unlocked and the mnemonic valid;
\* otherwise it returns false and stores nothing.  After it returned true
\* getMasterSeed() returns that mnemonic, in this session and in any session
\* whose key decrypts the entry; and the entry changes only in a successful
\* generateMasterSeed and in deleteAll, not in createKeys, generateKeySeed,
\* generateRecoveryAddr, importKey or sign.
C20_MasterSeedRoundTrip ==
  [][/\ (CallStep /\ op' = "generateMasterSeed") =>
          /\ ret'.kind = "true" =>
               /\ isUnlock(encryptionKey)
               /\ \E m \in MasterSeeds :
                    /\ localStorage' = Put(localStorage, DbKey(masterSeedKey),
                                           StoredCipher(encrypt(encryptionKey, <<m>>)))
                    /\ getMasterSeed(encryptionKey', localStorage', encryptionKey').ret
                         = RetString(m)
          /\ ret'.kind # "true" => localStorage' = localStorage
          /\ ~isUnlock(encryptionKey) => ret' = RetFalse
     /\ \A m \in MnemonicInputs :
          generateMasterSeed(encryptionKey', localStorage', m, 0).ret
            = IF isUnlock(encryptionKey') /\ validateMnemonic(m) THEN RetTrue ELSE RetFalse
     /\ (CallStep /\ op' = "getMasterSeed" /\ isUnlock(encryptionKey)
           /\ DbKey(masterSeedKey) \in DOMAIN localStorage
           /\ WrittenUnder(encryptionKey, localStorage[DbKey(masterSeedKey)])) =>
          ret' = RetString(MasterSeedIn(localStorage))
     /\ DbGet(localStorage', masterSeedKey) # DbGet(localStorage, masterSeedKey) =>
          \/ op' = "generateMasterSeed" /\ ret'.kind = "true"
          \/ op' = "deleteAll"]_vars

\* getMasterSeed(), in a second session and after keys were made and imported,
\* returns the mnemonic.
C20_Witness ==
  /\ op = "getMasterSeed"
  /\ ret.kind = "string"
  /\ ret.val[1] \in MasterSeeds
  /\ isUnlock(encryptionKey)
  /\ nextTimerId >= 3
  /\ HasKeySeed(localStorage)
  /\ \E x \in ImportKeys : DbKey(AddrKey(keyToHex(privateToAddress(x)))) \in DOMAIN localStorage

\* C21: the recovery address.  Unlocked, getRecoveryAddr() returns undefined
\* when no recovery entry is stored.  generateRecoveryAddr(m) stores one entry
\* under the recovery prefix, the address derived from m with its encrypted
\* private key, changes no other entry (key seed record, counter and ordinary
\* keys stay) and returns that address; getRecoveryAddr() then returns it when
\* it is the only recovery entry; and generateRecoveryAddr(m) once more returns
\* the same address and adds no entry.
RecoveryEntries(ls) == {k \in DOMAIN ls : IsPrefix(DbKey(<<KCPREFIX, IDRECOVERYPREFIX>>), k)}
RecoveryAddrs(key, ls) ==
  {getRecoveryAddr(key, ls, first).ret :
     first \in DbListKeys(ls, <<KCPREFIX, IDRECOVERYPREFIX>>)}

C21_RecoveryAddr ==
  [][/\ (CallStep /\ op' = "getRecoveryAddr" /\ isUnlock(encryptionKey)) =>
          /\ RecoveryEntries(localStorage) = {} => ret' = Undefined
          /\ RecoveryEntries(localStorage) # {} => ret' \in RecoveryAddrs(encryptionKey, localStorage)
          /\ localStorage' = localStorage
     /\ (CallStep /\ op' = "generateRecoveryAddr" /\ ret'.kind = "string") =>
          LET a == ret'.val[1]
              id == DbKey(RecoveryKey(a))
          IN  /\ isUnlock(encryptionKey)
              /\ id \in DOMAIN localStorage'
              /\ \E m \in MnemonicInputs :
                   LET privRecovery == derive(m, pathRecovery)
                       again == generateRecoveryAddr(encryptionKey', localStorage', m, 0)
                   IN  /\ a = keyToHex(privateToAddress(privRecovery))
                       /\ localStorage'[id]
                            = StoredCipher(encrypt(encryptionKey, <<keyToHex(privRecovery)>>))
                       /\ again.ret = ret'
                       /\ DOMAIN again.ls = DOMAIN localStorage'
              /\ DOMAIN localStorage' = (DOMAIN localStorage) \cup {id}
              /\ RecoveryEntries(localStorage') = RecoveryEntries(localStorage) \cup {id}
              /\ \A k \in (DOMAIN localStorage') \ {id} : localStorage'[k] = localStorage[k]
              /\ RecoveryEntries(localStorage') = {id} =>
                   RecoveryAddrs(encryptionKey', localStorage') = {RetString(a)}]_vars

\* getRecoveryAddr() has returned the one recovery address of a store that also
\* holds a key seed record with an increased counter and an imported key.
C21_Witness ==
  /\ op = "getRecoveryAddr"
  /\ ret.kind = "string"
  /\ isUnlock(encryptionKey)
  /\ RecoveryEntries(localStorage) = {DbKey(RecoveryKey(ret.val[1]))}
  /\ HasKeySeed(localStorage)
  /\ PathCounter(localStorage) = Small(1)
  /\ \E x \in ImportKeys : DbKey(AddrKey(keyToHex(privateToAddress(x)))) \in DOMAIN localStorage

\* C22: the counter never wraps.  With the counter at 2^32 - 1 (the container
\* unlocked with the key of the record), increaseKeyPath() fails and leaves the
\* record as it is, and createKeys() stores no derived key; in no step does the
\* stored counter become smaller.
AtMaxUInt32(key, ls) ==
  /\ isUnlock(key)
  /\ HasKeySeed(ls)
  /\ WrittenUnder(key, ls[DbKey(keySeedKey)])
  /\ PathCounter(ls) = MaxUInt32

C22_CounterNeverWraps ==
  [][/\ (HasKeySeed(localStorage) /\ HasKeySeed(localStorage')) =>
          ~NumLess(PathCounter(localStorage'), PathCounter(localStorage))
     /\ (CallStep /\ op' = "increaseKeyPath" /\ AtMaxUInt32(encryptionKey, localStorage)) =>
          IsThrow(ret') /\ localStorage' = localStorage
     /\ (CallStep /\ op' = "createKeys" /\ AtMaxUInt32(encryptionKey, localStorage)) =>
          /\ ret'.kind # "array"
          /\ \A k \in KeyEntries(localStorage') :
               k \in DOMAIN localStorage /\ localStorage'[k] = localStorage[k]]_vars

\* increaseKeyPath() was called with the counter at 2^32 - 1 and has thrown.
C22_Witness ==
  /\ op = "increaseKeyPath"
  /\ ret = Throw("RangeError")
  /\ AtMaxUInt32(encryptionKey, localStorage)
====
